---- MODULE Spec2Model ----
(***************************************************************************)
(* LifeGame backend: the reflection-question pipeline of app/agent.py      *)
(* (ReflectionAnalyzer), the handlers of app/main.py (POST                 *)
(* /questions/generate, POST /timeline/generate, POST /user/create, GET    *)
(* /user, GET /user/status) and the Notion stores of app/notion_manager.py *)
(* they read and write.                                                    *)
(*                                                                         *)
(* Text is a sequence of one-character strings.  TLC's strings are ASCII,  *)
(* so the Hangul letters of the two section markers are written            *)
(* with Latin letters: '[질문]' is [JM] and '[분석]' is [BS]; both keep     *)
(* their four characters, so a split or a replace scans them exactly as    *)
(* Python scans the originals.                                             *)
(***************************************************************************)
EXTENDS Integers, Sequences, FiniteSets, TLC

\* Python's None, and a key that a dict does not hold
None == "<None>"

Absent == "<absent>"

\* ------------------------------------------------------------------------
\* Python str operations used by the parser (agent.py:112-120)
\* ------------------------------------------------------------------------

Whitespace == {" ", "\n"}

QuestionsMarker == <<"[", "J", "M", "]">>

AnalysisMarker == <<"[", "B", "S", "]">>

Range(s) == {s[i] : i \in 1..Len(s)}

\* s[i:i+len(sep)] == sep
MatchAt(s, sep, i) ==
    /\ i + Len(sep) - 1 <= Len(s)
    /\ \A k \in 1..Len(sep) : s[i + k - 1] = sep[k]

\* str.find, 1-based; 0 when sep does not occur
Find(s, sep) ==
    LET hits == {i \in 1..Len(s) : MatchAt(s, sep, i)}
    IN  IF hits = {} THEN 0 ELSE CHOOSE i \in hits : \A j \in hits : i <= j

Contains(s, sep) == Find(s, sep) # 0

\* str.split(sep): every non-overlapping occurrence, scanned left to right
RECURSIVE Split(_, _)
Split(s, sep) ==
    LET i == Find(s, sep)
    IN  IF i = 0 THEN <<s>>
        ELSE <<SubSeq(s, 1, i - 1)>> \o Split(SubSeq(s, i + Len(sep), Len(s)), sep)

\* str.split(sep, 1): at most one split
SplitOnce(s, sep) ==
    LET i == Find(s, sep)
    IN  IF i = 0 THEN <<s>>
        ELSE <<SubSeq(s, 1, i - 1), SubSeq(s, i + Len(sep), Len(s))>>

\* str.replace(old, ''): every non-overlapping occurrence removed
RECURSIVE Remove(_, _)
Remove(s, old) ==
    LET i == Find(s, old)
    IN  IF i = 0 THEN s
        ELSE SubSeq(s, 1, i - 1) \o Remove(SubSeq(s, i + Len(old), Len(s)), old)

RECURSIVE LStrip(_)
LStrip(s) == IF s # <<>> /\ Head(s) \in Whitespace THEN LStrip(Tail(s)) ELSE s

RECURSIVE RStrip(_)
RStrip(s) ==
    IF s # <<>> /\ s[Len(s)] \in Whitespace THEN RStrip(SubSeq(s, 1, Len(s) - 1)) ELSE s

\* str.strip()
Strip(s) == RStrip(LStrip(s))

\* ------------------------------------------------------------------------
\* The free-text parser of get_gemini_analysis (agent.py:110-131)
\* ------------------------------------------------------------------------

\* agent.py:119  `if line and '.' in line`
KeepLine(line) == line # <<>> /\ "." \in Range(line)

\* agent.py:120  `line.split('.', 1)[1].strip()`
QuestionOfEveryDot(line) == Strip(Split(line, <<".">>)[2])

QuestionOf(line) == Strip(SplitOnce(line, <<".">>)[2])

\* agent.py:116-121  the loop over questions_text.split('\n')
RECURSIVE QuestionLoop(_)
QuestionLoop(lines) ==
    IF lines = <<>> THEN <<>>
    ELSE LET line == Strip(Head(lines))
         IN  (IF KeepLine(line) THEN <<QuestionOf(line)>> ELSE <<>>)
             \o QuestionLoop(Tail(lines))

\* agent.py:113  `parts[0].replace('[분석]', '').strip()`
AnalysisOf(part) == Strip(Remove(part, AnalysisMarker))

\* agent.py:122-126  the except branch: analysis = content, questions = []
DegradedStripped(content) ==
    [analysis |-> Strip(content), questions |-> <<>>, parse_error |-> TRUE]

Degraded(content) ==
    [analysis |-> content, questions |-> <<>>, parse_error |-> TRUE]

\* agent.py:111-131.  parts[1] on a one-element list raises IndexError, which
\* the except clause catches; parse_error records that it was raised.
ParseGemini(content) ==
    LET parts == Split(content, QuestionsMarker)
    IN  IF Len(parts) < 2
        THEN Degraded(content)
        ELSE [analysis    |-> AnalysisOf(parts[1]),
              questions   |-> QuestionLoop(Split(Strip(parts[2]), <<"\n">>)),
              parse_error |-> FALSE]

\* ------------------------------------------------------------------------
\* Parser inputs
\* ------------------------------------------------------------------------

MaxPieces == 4

MaxLines == 2

Pieces == {QuestionsMarker, AnalysisMarker, <<"x">>, <<" ">>, <<"\n">>, <<"1">>, <<".">>}

RECURSIVE PieceTexts(_)
PieceTexts(n) ==
    IF n = 0 THEN {<<>>}
    ELSE LET shorter == PieceTexts(n - 1)
         IN  shorter \cup {t \o p : t \in shorter, p \in Pieces}

\* analysis texts and question texts of a well-formed reply: no marker inside
AnalysisTexts == {<<"x">>, <<" ", "x", "\n">>, <<"x", ".", "x">>, <<"\n", "x", " ", "x", " ">>}

QuestionTexts == {<<"x">>, <<"x", ".", "x">>, <<"x", " ", "x", " ">>, <<"x", "?", " ", "1", ".">>}

RECURSIVE LineTexts(_)
LineTexts(n) ==
    IF n = 0 THEN {<<>>}
    ELSE LET shorter == LineTexts(n - 1)
         IN  shorter \cup {Append(ls, q) : ls \in {l \in shorter : Len(l) = n - 1}, q \in QuestionTexts}

Digit(k) == <<CHOOSE d \in {"1", "2", "3", "4", "5", "6", "7", "8", "9"} : d = ToString(k)>>

\* 'k. text' lines joined by newlines, as the prompt asks for (agent.py:101-104)
RECURSIVE NumberedLines(_, _)
NumberedLines(texts, k) ==
    IF texts = <<>> THEN <<>>
    ELSE <<"\n">> \o Digit(k) \o <<".", " ">> \o Head(texts)
         \o NumberedLines(Tail(texts), k + 1)

WellFormed(a, texts) ==
    AnalysisMarker \o <<"\n">> \o a \o <<"\n">> \o QuestionsMarker \o NumberedLines(texts, 1)

\* the value of `analysis`/`questions` before the parser has run
NoResult == [analysis |-> <<>>, questions |-> <<>>, parse_error |-> FALSE]

\* ------------------------------------------------------------------------
\* Prompt building (agent.py:63-104)
\* ------------------------------------------------------------------------

\* an f-string field: str(None) is 'None'
Str(v) == IF v = None THEN "None" ELSE v

\* agent.py:66-70: activity['time'] and activity['activity'] raise KeyError on
\* an entry without the key; 'thoughts' is read only when present
RaisesKeyError(activity) == activity.time = Absent \/ activity.activity = Absent

RenderActivity(activity) ==
    <<"time", activity.time, "activity", activity.activity>>
    \o (IF activity.thoughts # Absent THEN <<"thoughts", activity.thoughts>> ELSE <<>>)

RECURSIVE TimelineText(_)
TimelineText(timeline) ==
    IF timeline = <<>> THEN <<>>
    ELSE RenderActivity(Head(timeline)) \o TimelineText(Tail(timeline))

PromptRaises(journal_data) ==
    \E i \in 1..Len(journal_data.timeline) : RaisesKeyError(journal_data.timeline[i])

\* agent.py:72-104: the interpolated fields of the prompt; goals and preferences
\* are read from self.user_info, not from the arguments
BuildPrompt(info, journal_data, mbti) ==
    [mbti        |-> Str(mbti),
     goals       |-> Str(info.goals),
     preferences |-> Str(info.preferences),
     timeline    |-> TimelineText(journal_data.timeline),
     journal     |-> journal_data.journal]

NoPrompt == [mbti |-> "", goals |-> "", preferences |-> "", timeline |-> <<>>, journal |-> ""]

\* ------------------------------------------------------------------------
\* The diary database: pages of blocks (notion_manager.py:276-416).  A block
\* is [type, rich_text]; rich_text is the list of its text contents, empty for
\* a blank block.  A page is [type, blocks], type being its Type select.
\* ------------------------------------------------------------------------

Block(type, rich_text) == [type |-> type, rich_text |-> rich_text]

\* a dict without the key: {} is the entry none of whose keys is set
EmptyEntry == [time |-> Absent, activity |-> Absent, thoughts |-> Absent]

\* Python truthiness of current_activity and of current_activity.get("time")
\* (notion_manager.py:385, 390, 392)
Truthy(entry) == entry.time # Absent

HasTime(entry) == entry.time \notin {Absent, ""}

NoRead == [raised |-> FALSE, timeline |-> <<>>, journal |-> ""]

\* notion_manager.py:382-396, the loop over the Timeline page's blocks;
\* rich_text[0] raises IndexError on a blank block
RECURSIVE TimelineLoop(_, _, _)
TimelineLoop(blocks, current_activity, timeline_content) ==
    IF blocks = <<>>
    THEN [raised   |-> FALSE,
          timeline |-> IF Truthy(current_activity)
                       THEN Append(timeline_content, current_activity)
                       ELSE timeline_content]
    ELSE LET block == Head(blocks)
             rest  == Tail(blocks)
         IN  CASE block.type = "heading_3" ->
                      IF block.rich_text = <<>>
                      THEN [raised |-> TRUE, timeline |-> <<>>]
                      ELSE TimelineLoop(rest,
                               [EmptyEntry EXCEPT !.time = block.rich_text[1]],
                               IF Truthy(current_activity)
                               THEN Append(timeline_content, current_activity)
                               ELSE timeline_content)
               [] block.type = "paragraph" /\ HasTime(current_activity) ->
                      IF block.rich_text = <<>>
                      THEN [raised |-> TRUE, timeline |-> <<>>]
                      ELSE TimelineLoop(rest,
                               [current_activity EXCEPT !.activity = block.rich_text[1]],
                               timeline_content)
               [] block.type = "callout" /\ HasTime(current_activity) ->
                      IF block.rich_text = <<>>
                      THEN [raised |-> TRUE, timeline |-> <<>>]
                      ELSE TimelineLoop(rest,
                               [current_activity EXCEPT !.thoughts = block.rich_text[1]],
                               timeline_content)
               [] OTHER -> TimelineLoop(rest, current_activity, timeline_content)

\* notion_manager.py:401-406: the first text of every non-blank paragraph or
\* quote block
RECURSIVE JournalLines(_)
JournalLines(blocks) ==
    IF blocks = <<>> THEN <<>>
    ELSE LET block == Head(blocks)
         IN  (IF block.type \in {"paragraph", "quote"} /\ block.rich_text # <<>>
              THEN <<block.rich_text[1]>> ELSE <<>>)
             \o JournalLines(Tail(blocks))

\* "\n".join(lines)
RECURSIVE JoinLines(_)
JoinLines(lines) ==
    IF lines = <<>> THEN ""
    ELSE IF Len(lines) = 1 THEN lines[1]
    ELSE lines[1] \o "\n" \o JoinLines(Tail(lines))

\* the pages a query for one Type returns, in the store's order
PagesOfType(db_pages, type) == SelectSeq(db_pages, LAMBDA page : page.type = type)

\* notion_manager.py:347-416: results[0] of each query is read
GetTodaysJournal(db_pages) ==
    LET timeline_results == PagesOfType(db_pages, "Timeline")
        journal_results  == PagesOfType(db_pages, "Journal")
        timeline_read    == IF timeline_results = <<>>
                            THEN [raised |-> FALSE, timeline |-> <<>>]
                            ELSE TimelineLoop(timeline_results[1].blocks, EmptyEntry, <<>>)
    IN  IF timeline_read.raised
        THEN [NoRead EXCEPT !.raised = TRUE]
        ELSE [raised   |-> FALSE,
              timeline |-> timeline_read.timeline,
              journal  |-> IF journal_results = <<>> THEN ""
                           ELSE JoinLines(JournalLines(journal_results[1].blocks))]

\* Python's order of the startTime strings used in the model
TimeOrder == <<"08:00", "09:30", "14:00">>

StrRank(t) == CHOOSE i \in 1..Len(TimeOrder) : TimeOrder[i] = t

\* sorted(activities, key=startTime) is stable (notion_manager.py:280)
RECURSIVE InsertByStart(_, _)
InsertByStart(activity, sorted) ==
    IF sorted = <<>> THEN <<activity>>
    ELSE IF StrRank(activity.startTime) < StrRank(Head(sorted).startTime)
         THEN <<activity>> \o sorted
         ELSE <<Head(sorted)>> \o InsertByStart(activity, Tail(sorted))

RECURSIVE SortedActivities(_)
SortedActivities(activities) ==
    IF activities = <<>> THEN <<>>
    ELSE InsertByStart(activities[Len(activities)],
                       SortedActivities(SubSeq(activities, 1, Len(activities) - 1)))

\* notion_manager.py:294-316: a bold paragraph for title and times, and a
\* paragraph for the thoughts when there are any
ActivityBlocks(activity) ==
    <<Block("paragraph",
            <<"**" \o activity.title \o "** (" \o activity.startTime \o " - "
              \o activity.endTime \o ")">>)>>
    \o (IF activity.thoughts \notin {None, ""}
        THEN <<Block("paragraph", <<"    " \o activity.thoughts>>)>>
        ELSE <<>>)

RECURSIVE ActivitiesBlocks(_)
ActivitiesBlocks(sorted_activities) ==
    IF sorted_activities = <<>> THEN <<>>
    ELSE ActivityBlocks(Head(sorted_activities)) \o ActivitiesBlocks(Tail(sorted_activities))

\* notion_manager.py:283-291 and 294-316
TimelineBlocks(activities) ==
    <<Block("heading_1", <<"activity record">>)>>
    \o ActivitiesBlocks(SortedActivities(activities))

Page(type, blocks) == [type |-> type, blocks |-> blocks]

\* notion_manager.py:319-326 and 330-337
TimelinePage(activities) == Page("Timeline", TimelineBlocks(activities))

EmptyJournalPage == Page("Journal", <<>>)

\* ------------------------------------------------------------------------
\* The admin users database: one page per user, Name and Status properties,
\* the keys kept in the page's blocks (notion_manager.py:70-120, 138-202).
\* The text of a paragraph is a sequence of tokens: its label, a blank, and
\* the value when it is not the empty string.
\* ------------------------------------------------------------------------

NotionKeyLabel == "Notion API Key:"

GeminiKeyLabel == "Gemini API Key:"

NotionUrlLabel == "Notion URL:"

\* f"{label} {value}"
LabelledText(label, value) == <<label, " ">> \o (IF value = "" THEN <<>> ELSE <<value>>)

\* text.startswith(label)
StartsWith(text, label) == text # <<>> /\ text[1] = label

RECURSIVE JoinTokens(_)
JoinTokens(tokens) == IF tokens = <<>> THEN "" ELSE Head(tokens) \o JoinTokens(Tail(tokens))

\* text.replace(label, "").strip()
FieldValue(text, label) == JoinTokens(Strip(Remove(text, <<label>>)))

\* notion_manager.py:151-188: json.dumps of a dict of strings, read back by
\* json.loads (notion_manager.py:107-109), is that dict
UserBlocks(notion_api_key, gemini_api_key, notion_url, database_ids) ==
    <<Block("paragraph", <<LabelledText(NotionKeyLabel, notion_api_key)>>),
      Block("paragraph", <<LabelledText(GeminiKeyLabel, gemini_api_key)>>),
      Block("paragraph", <<LabelledText(NotionUrlLabel, notion_url)>>),
      Block("code", <<database_ids>>)>>

NoDatabaseIds == [character_db_id |-> Absent, diary_db_id |-> Absent]

NoPage == [exists |-> FALSE, status |-> None, blocks |-> <<>>]

NoUser ==
    [registered |-> FALSE, status |-> None, notion_api_key |-> None, notion_url |-> None,
     gemini_api_key |-> None, database_ids |-> NoDatabaseIds]

\* notion_manager.py:97-111: the loop over the page's blocks
RECURSIVE UserDataLoop(_, _)
UserDataLoop(blocks, user_data) ==
    IF blocks = <<>> THEN user_data
    ELSE LET block == Head(blocks)
             text  == block.rich_text[1]
         IN  UserDataLoop(Tail(blocks),
                 CASE block.type = "paragraph" /\ block.rich_text # <<>>
                          /\ StartsWith(text, NotionKeyLabel) ->
                          [user_data EXCEPT !.notion_api_key = FieldValue(text, NotionKeyLabel)]
                   [] block.type = "paragraph" /\ block.rich_text # <<>>
                          /\ StartsWith(text, NotionUrlLabel) ->
                          [user_data EXCEPT !.notion_url = FieldValue(text, NotionUrlLabel)]
                   [] block.type = "paragraph" /\ block.rich_text # <<>>
                          /\ StartsWith(text, GeminiKeyLabel) ->
                          [user_data EXCEPT !.gemini_api_key = FieldValue(text, GeminiKeyLabel)]
                   [] block.type = "code" -> [user_data EXCEPT !.database_ids = text]
                   [] OTHER -> user_data)

\* notion_manager.py:70-115: None when no page has the name
GetUserData(page) ==
    IF ~page.exists THEN NoUser
    ELSE UserDataLoop(page.blocks,
             [NoUser EXCEPT !.registered = TRUE,
                            !.status = IF page.status = None THEN "Inactive" ELSE page.status])

\* ------------------------------------------------------------------------
\* Fixtures: the admin store, the users' workspaces, the providers' replies
\* ------------------------------------------------------------------------

NumReqs == 2

Reqs == 1..NumReqs

\* the analyzer instance a library caller shares between its invocations
Lib == 0

Insts == Reqs \cup {Lib}

Names == {"ann", "bob", "cat", "dan", "eve", "fay"}

JournalOK ==
    [timeline |-> <<[time |-> "09:00", activity |-> "run", thoughts |-> "tired"]>>,
     journal  |-> "diary"]

\* a heading_3 block followed by no paragraph leaves an entry with only 'time'
\* (notion_manager.py:383-395)
JournalNoActivity ==
    [timeline |-> <<[time |-> "09:00", activity |-> Absent, thoughts |-> Absent]>>,
     journal  |-> "diary"]

AdminFixture ==
    [n \in Names |->
        [registered     |-> n # "eve",
         status         |-> IF n = "dan" THEN "Inactive" ELSE "Active",
         gemini_api_key |-> "key_" \o n]]

CharacterFixture ==
    [n \in Names |->
        [mbti        |-> CASE n = "cat" -> "" [] n = "bob" -> "ENFP" [] OTHER -> "INTJ",
         goals       |-> IF n = "bob" THEN None ELSE "goals_" \o n,
         preferences |-> "prefs_" \o n]]

\* get_todays_journal's answer when today has neither a Timeline nor a Journal
\* page: a dict with an empty list and an empty string
NoJournalToday ==
    [timeline |-> GetTodaysJournal(<<>>).timeline, journal |-> GetTodaysJournal(<<>>).journal]

DiaryFixture ==
    [n \in Names |->
        CASE n = "fay" -> JournalNoActivity
          [] n = "bob" -> NoJournalToday
          [] OTHER     -> JournalOK]

\* the admin pages behind AdminFixture, as add_user_to_admin_db lays them out
AdminPagesFixture ==
    [n \in Names |->
        IF n = "eve" THEN NoPage
        ELSE [exists |-> TRUE,
              status |-> IF n = "dan" THEN "Inactive" ELSE "Active",
              blocks |-> UserBlocks("nkey_" \o n, "key_" \o n, "url_" \o n,
                                    [character_db_id |-> "cdb_" \o n,
                                     diary_db_id |-> "ddb_" \o n])]]

\* Activity (main.py:40-44)
ActRun == [title |-> "run", startTime |-> "08:00", endTime |-> "09:00", thoughts |-> "tired"]

ActLunch == [title |-> "lunch", startTime |-> "14:00", endTime |-> "15:00", thoughts |-> None]

ActRead == [title |-> "read", startTime |-> "09:30", endTime |-> "10:00", thoughts |-> ""]

\* bodies of POST /timeline/generate (main.py:46-47)
TimelineRequests == {<<ActRun>>, <<ActLunch, ActRun>>}

MaxBlocks == 3

MaxActs == 2

SeqsUpTo(S, n) == UNION {[1..k -> S] : k \in 0..n}

\* blocks a user may put on a Timeline page: headings with a time or an empty
\* text, paragraphs and callouts, blank paragraphs
AuthoredBlocks ==
    {Block("heading_3", <<"09:00">>), Block("heading_3", <<"10:00">>), Block("heading_3", <<"">>),
     Block("paragraph", <<"run">>), Block("paragraph", <<>>), Block("callout", <<"tired">>)}

\* the user whose diary DB the reader and the writer are run on
JUser == "ann"

\* UserSettings (main.py:30-38) before a request carries one
NoSettings ==
    [characterName |-> None, mbti |-> "", goals |-> None, preferences |-> None,
     notionApiKey |-> "", notionPageUrl |-> "", geminiApiKey |-> "", confirmUpdate |-> None]

\* the pages a UserSettings.notionPageUrl may name: one shared with the
\* integration and holding both databases, one not shared, one without a
\* character database, one without a diary database, and a text that holds
\* no page id
Urls == {"url_ok", "url_unshared", "url_nochar", "url_nodiary", "url_bad"}

\* notion_manager.py:17-23: the 32 hex digits found in the URL, or ValueError
ExtractPageId(url) == IF url = "url_bad" THEN None ELSE "page_" \o url

\* notion_manager.py:25-40: the child databases titled character / diary
DatabasesAt(url) ==
    [character_db_id |-> IF url = "url_nochar" THEN Absent ELSE "cdb_" \o url,
     diary_db_id     |-> IF url = "url_nodiary" THEN Absent ELSE "ddb_" \o url]

\* confirmUpdate is Optional[bool]: None, "True" or "False"
Settings(name, confirm, notion_key, gemini_key, url, goals) ==
    [characterName |-> name, mbti |-> "ISTP", goals |-> goals, preferences |-> "p_new",
     notionApiKey |-> notion_key, notionPageUrl |-> url, geminiApiKey |-> gemini_key,
     confirmUpdate |-> confirm]

\* bodies of POST /user/create: new names and registered ones, with and
\* without confirmUpdate, with and without new keys
CreateRequests ==
    {Settings("eve", None, "nk_new", "gk_new", "url_ok", "g_new"),
     Settings("eve", "True", "nk_new", "", "url_nodiary", None),
     Settings("eve", None, "nk_new", "gk_new", "url_unshared", "g_new"),
     Settings("eve", None, "nk_new", "gk_new", "url_nochar", "g_new"),
     Settings("eve", None, "nk_new", "gk_new", "url_bad", "g_new"),
     Settings("ann", None, "nk_new", "gk_new", "url_ok", "g_new"),
     Settings("dan", "False", "nk_new", "gk_new", "url_ok", "g_new"),
     Settings("ann", "True", "", "gk_new", "url_ok", None),
     Settings("dan", "True", "nk_new", "", "url_ok", "g_new")}

\* the users the generate endpoints are called for next to POST /user/create:
\* an Inactive one and the one that is created
NewNames == {"dan", "eve"}

\* the users the requests of the endpoint model name: an Active one, one
\* without MBTI, an Inactive one, an unregistered one
GateNames == {"bob", "cat", "dan", "eve"}

\* agent.py:159-165, the five fixed questions, in order
Fallback == <<"fallback1", "fallback2", "fallback3", "fallback4", "fallback5">>

\* what provider A may answer (any text)
AOutputs ==
    {WellFormed(<<"x">>, <<<<"x">>, <<"x", ".", "x">>>>),
     <<" ", "x", "\n">>}

\* what provider B may answer: QuestionsResponse is questions: List[str]
\* (agent.py:13-14), any list of strings
BOutputs ==
    {<<"q1", "q2", "q3", "q4", "q5">>,
     <<"q1", "q2", "q3">>,
     <<"q1", "", "q3", "q4", "q5">>}

\* arguments of a direct call of generate_questions (agent.py:133)
DirectArgs ==
    {[mbti |-> "INTJ", goals |-> "g1", preferences |-> "p1", journal |-> JournalOK],
     [mbti |-> "ENFP", goals |-> "g2", preferences |-> None, journal |-> JournalOK],
     [mbti |-> None, goals |-> None, preferences |-> "p1", journal |-> JournalOK],
     [mbti |-> "", goals |-> "g1", preferences |-> "p2", journal |-> JournalNoActivity]}

NoArgs == [mbti |-> None, goals |-> None, preferences |-> None, journal |-> JournalOK]

\* agent.py:55-58
FreshUserInfo == [goals |-> None, preferences |-> None]

VARIABLES
    sample,         \* SpecParse: the text given to the parser (content, agent.py:108)
    parsed,         \* SpecParse: the ReasoningResult it returns (agent.py:128-131)
    ppc,            \* SpecParse: "start" before the parser ran, "parsed" after
    running,        \* the request whose coroutine holds the event loop, or Idle
    genai_api_key,  \* the process-wide key set by genai.configure (agent.py:21)
    user_info,      \* self.user_info of each analyzer instance (agent.py:55-58)
    admin,          \* admin users DB as get_user_data reads it (notion_manager.py:70-115)
    character,      \* each user's character DB as get_user_info reads it (notion_manager.py:229-270)
    diary,          \* each user's diary as get_todays_journal reads it (notion_manager.py:347-412)
    pages,          \* Questions pages created in each user's diary DB (notion_manager.py:488-496)
    logs,           \* per request: status of each log_activity record written (notion_manager.py:504)
    resp,           \* per request: HTTP status answered, 0 while none (main.py:441, 459)
    pc,             \* per request: position in the handler / the pipeline
    user,           \* per request: user_name (main.py:332)
    inst,           \* per request: the analyzer instance it runs on (main.py:360 or the shared one)
    args,           \* per request: mbti, goals, preferences, journal_content (main.py:401-406)
    prompt,         \* per request: the prompt built (agent.py:72-104)
    a_calls,        \* per request: number of send_message calls (agent.py:107)
    a_key,          \* per request: the Gemini key in force at send_message
    content,        \* per request: response.text (agent.py:108)
    result,         \* per request: get_gemini_analysis's return value (agent.py:140)
    b_calls,        \* per request: number of formatter_agent.run calls (agent.py:144)
    formatted,      \* per request: formatted.data.questions (agent.py:155)
    failed,         \* per request: the stage whose exception reached agent.py:157, or "none"
    out,            \* per request: what generate_questions handed its caller
    kind,           \* per request: its endpoint, POST /questions/generate unless set otherwise
    acts,           \* per request: request.activities of POST /timeline/generate (main.py:254)
    reply,          \* per request: 'status' of the JSON that POST /user/create returns, "" while none
    settings,       \* per request: the UserSettings body of POST /user/create (main.py:82)
    diary_pages,    \* today's pages in each user's diary DB (notion_manager.py:319-337)
    admin_page,     \* the admin users DB: each user's page, Status and blocks (notion_manager.py:141-195)
    jpc,            \* SpecJournal: "start", then how today's Timeline page came about, then "_read"
    jacts,          \* SpecJournal: the activities handed to generate_daily_timeline (notion_manager.py:276)
    jread           \* SpecJournal: what get_todays_journal returned (notion_manager.py:408-411)

pvars == <<sample, parsed, ppc>>

\* state of the other endpoints, which the question pipeline leaves alone
xvars == <<kind, acts, reply, settings, diary_pages, admin_page, jpc, jacts, jread>>

envvars == <<admin, character, diary, xvars>>

gqvars == <<prompt, a_calls, a_key, content, result, b_calls, formatted, failed, out>>

svars == <<running, genai_api_key, user_info, envvars, pages, logs, resp,
           pc, user, inst, args, gqvars>>

vars == <<pvars, svars>>

\* ------------------------------------------------------------------------
\* Scheduling: one asyncio event loop.  A coroutine keeps the loop until it
\* awaits something that really suspends.  Every Notion and Gemini call is a
\* blocking call inside an `async def`; the only awaited operation that
\* suspends is the formatter agent's run (agent.py:144).
\* ------------------------------------------------------------------------

Idle == 0

\* every `await` of the request path taken as a suspension point
AwaitPointsEveryAwait ==
    {"h_user_data", "h_user_info", "h_journal", "gq_enter", "gq_prompt", "gq_wait_b", "h_save"}

AwaitPoints == {"gq_wait_b"}

CanStep(r) == running = r \/ (running = Idle /\ pc[r] \in AwaitPoints \cup {"idle"})

Goto(r, p) ==
    /\ pc' = [pc EXCEPT ![r] = p]
    /\ running' = IF p \in AwaitPoints \cup {"done"} THEN Idle ELSE r

\* where generate_questions hands control back: the handler (main.py:409) or,
\* for a direct call, the caller
AfterPipeline(r) == IF inst[r] = Lib THEN "done" ELSE "h_save"

Log(r, status) == logs' = [logs EXCEPT ![r] = Append(@, status)]

\* ------------------------------------------------------------------------
\* POST /questions/generate/{user_name} (main.py:331-459)
\* ------------------------------------------------------------------------

Arrive(r, u) ==
    /\ pc[r] = "idle"
    /\ CanStep(r)
    /\ user' = [user EXCEPT ![r] = u]
    /\ Goto(r, "h_user_data")
    /\ UNCHANGED <<pvars, genai_api_key, user_info, envvars, pages, logs, resp, inst, args, gqvars>>

\* main.py:336-357: 404 and 403 are raised inside the try, after their log record
HGetUserData(r) ==
    /\ pc[r] = "h_user_data"
    /\ CanStep(r)
    /\ IF ~admin[user[r]].registered \/ admin[user[r]].status # "Active"
       THEN Log(r, "Error") /\ Goto(r, "h_except")
       ELSE UNCHANGED logs /\ Goto(r, "h_construct")
    /\ UNCHANGED <<pvars, genai_api_key, user_info, envvars, pages, resp, user, inst, args, gqvars>>

\* main.py:360-363, notion_manager.py:15, agent.py:17-58: a new analyzer per
\* request; its constructor sets the process-wide Gemini key
HConstruct(r) ==
    /\ pc[r] = "h_construct"
    /\ CanStep(r)
    /\ genai_api_key' = admin[user[r]].gemini_api_key
    /\ user_info' = [user_info EXCEPT ![inst[r]] = FreshUserInfo]
    /\ Goto(r, "h_user_info")
    /\ UNCHANGED <<pvars, envvars, pages, logs, resp, user, inst, args, gqvars>>

\* main.py:366-377
HGetUserInfo(r) ==
    /\ pc[r] = "h_user_info"
    /\ CanStep(r)
    /\ LET info == character[user[r]]
       IN  IF info.mbti \in {None, ""}
           THEN /\ Log(r, "Error")
                /\ Goto(r, "h_except")
                /\ UNCHANGED args
           ELSE /\ args' = [args EXCEPT ![r] = [mbti |-> info.mbti, goals |-> info.goals,
                                                preferences |-> info.preferences,
                                                journal |-> @.journal]]
                /\ Goto(r, "h_journal")
                /\ UNCHANGED logs
    /\ UNCHANGED <<pvars, genai_api_key, user_info, envvars, pages, resp, user, inst, gqvars>>

\* main.py:379-398: get_todays_journal returns a two-key dict, which is never falsy
HGetJournal(r) ==
    /\ pc[r] = "h_journal"
    /\ CanStep(r)
    /\ args' = [args EXCEPT ![r].journal = diary[user[r]]]
    /\ Goto(r, "gq_enter")
    /\ UNCHANGED <<pvars, genai_api_key, user_info, envvars, pages, logs, resp, user, inst, gqvars>>

\* main.py:409-417, notion_manager.py:418-502: the Questions page is created,
\* or the Notion call raises
HSave(r) ==
    /\ pc[r] = "h_save"
    /\ CanStep(r)
    /\ \/ /\ pages' = [pages EXCEPT ![user[r]] = Append(@, out[r].questions)]
          /\ Goto(r, "h_log_success")
       \/ /\ UNCHANGED pages
          /\ Goto(r, "h_except")
    /\ UNCHANGED <<pvars, genai_api_key, user_info, envvars, logs, resp, user, inst, args, gqvars>>

\* main.py:421-445
HLogSuccess(r) ==
    /\ pc[r] = "h_log_success"
    /\ CanStep(r)
    /\ Log(r, "Success")
    /\ resp' = [resp EXCEPT ![r] = 200]
    /\ Goto(r, "done")
    /\ UNCHANGED <<pvars, genai_api_key, user_info, envvars, pages, user, inst, args, gqvars>>

\* main.py:446-459: `except Exception` also catches the HTTPException raised above
HExcept(r) ==
    /\ pc[r] = "h_except"
    /\ CanStep(r)
    /\ Log(r, "Error")
    /\ resp' = [resp EXCEPT ![r] = 500]
    /\ Goto(r, "done")
    /\ UNCHANGED <<pvars, genai_api_key, user_info, envvars, pages, user, inst, args, gqvars>>

\* ------------------------------------------------------------------------
\* ReflectionAnalyzer.generate_questions (agent.py:133-165)
\* ------------------------------------------------------------------------

\* a direct call on the shared analyzer
Invoke(r, a) ==
    /\ pc[r] = "idle"
    /\ CanStep(r)
    /\ inst[r] = Lib
    /\ args' = [args EXCEPT ![r] = a]
    /\ Goto(r, "gq_enter")
    /\ UNCHANGED <<pvars, genai_api_key, user_info, envvars, pages, logs, resp, user, inst, gqvars>>

\* agent.py:136-137
UpdatedUserInfo(goals, preferences) == [goals |-> goals, preferences |-> preferences]

\* agent.py:136-137 with `if goals:` / `if preferences:` guards
GQEnterKeepsUnlessGiven(r) ==
    /\ pc[r] = "gq_enter"
    /\ CanStep(r)
    /\ user_info' = [user_info EXCEPT ![inst[r]] =
           [goals       |-> IF args[r].goals = None THEN @.goals ELSE args[r].goals,
            preferences |-> IF args[r].preferences = None THEN @.preferences
                            ELSE args[r].preferences]]
    /\ Goto(r, "gq_prompt")
    /\ UNCHANGED <<pvars, genai_api_key, envvars, pages, logs, resp, user, inst, args, gqvars>>

GQEnter(r) ==
    /\ pc[r] = "gq_enter"
    /\ CanStep(r)
    /\ user_info' = [user_info EXCEPT ![inst[r]] = UpdatedUserInfo(args[r].goals, args[r].preferences)]
    /\ Goto(r, "gq_prompt")
    /\ UNCHANGED <<pvars, genai_api_key, envvars, pages, logs, resp, user, inst, args, gqvars>>

\* agent.py:140, 63-104
GQPrompt(r) ==
    /\ pc[r] = "gq_prompt"
    /\ CanStep(r)
    /\ IF PromptRaises(args[r].journal)
       THEN /\ failed' = [failed EXCEPT ![r] = "prompt"]
            /\ Goto(r, "gq_except")
            /\ UNCHANGED prompt
       ELSE /\ prompt' = [prompt EXCEPT ![r] = BuildPrompt(user_info[inst[r]], args[r].journal, args[r].mbti)]
            /\ Goto(r, "gq_call_a")
            /\ UNCHANGED failed
    /\ UNCHANGED <<pvars, genai_api_key, user_info, envvars, pages, logs, resp, user, inst, args,
                   a_calls, a_key, content, result, b_calls, formatted, out>>

\* agent.py:106-108: one blocking call with the process-wide key; it returns
\* text or raises
GQCallA(r) ==
    /\ pc[r] = "gq_call_a"
    /\ CanStep(r)
    /\ a_calls' = [a_calls EXCEPT ![r] = @ + 1]
    /\ a_key' = [a_key EXCEPT ![r] = genai_api_key]
    /\ \/ /\ \E c \in AOutputs : content' = [content EXCEPT ![r] = c]
          /\ Goto(r, "gq_parse")
          /\ UNCHANGED failed
       \/ /\ failed' = [failed EXCEPT ![r] = "provider_a"]
          /\ Goto(r, "gq_except")
          /\ UNCHANGED content
    /\ UNCHANGED <<pvars, genai_api_key, user_info, envvars, pages, logs, resp, user, inst, args,
                   prompt, result, b_calls, formatted, out>>

\* agent.py:110-131
GQParseErrorEscapes(r) ==
    /\ pc[r] = "gq_parse"
    /\ CanStep(r)
    /\ result' = [result EXCEPT ![r] = ParseGemini(content[r])]
    /\ IF ParseGemini(content[r]).parse_error
       THEN failed' = [failed EXCEPT ![r] = "parse"] /\ Goto(r, "gq_except")
       ELSE UNCHANGED failed /\ Goto(r, "gq_call_b")
    /\ UNCHANGED <<pvars, genai_api_key, user_info, envvars, pages, logs, resp, user, inst, args,
                   prompt, a_calls, a_key, content, b_calls, formatted, out>>

GQParse(r) ==
    /\ pc[r] = "gq_parse"
    /\ CanStep(r)
    /\ result' = [result EXCEPT ![r] = ParseGemini(content[r])]
    /\ Goto(r, "gq_call_b")
    /\ UNCHANGED <<pvars, genai_api_key, user_info, envvars, pages, logs, resp, user, inst, args,
                   prompt, a_calls, a_key, content, b_calls, formatted, failed, out>>

\* agent.py:144-153: the request is sent and the coroutine suspends
GQCallB(r) ==
    /\ pc[r] = "gq_call_b"
    /\ CanStep(r)
    /\ b_calls' = [b_calls EXCEPT ![r] = @ + 1]
    /\ Goto(r, "gq_wait_b")
    /\ UNCHANGED <<pvars, genai_api_key, user_info, envvars, pages, logs, resp, user, inst, args,
                   prompt, a_calls, a_key, content, result, formatted, failed, out>>

\* agent.py:144: the coroutine resumes with the validated reply, or the run raises
GQResumeB(r) ==
    /\ pc[r] = "gq_wait_b"
    /\ CanStep(r)
    /\ \/ /\ \E q \in BOutputs : formatted' = [formatted EXCEPT ![r] = q]
          /\ pc' = [pc EXCEPT ![r] = "gq_return"]
          /\ UNCHANGED failed
       \/ /\ failed' = [failed EXCEPT ![r] = "provider_b"]
          /\ pc' = [pc EXCEPT ![r] = "gq_except"]
          /\ UNCHANGED formatted
    /\ running' = r
    /\ UNCHANGED <<pvars, genai_api_key, user_info, envvars, pages, logs, resp, user, inst, args,
                   prompt, a_calls, a_key, content, result, b_calls, out>>

\* agent.py:155
GQReturnWritesPage(r) ==
    /\ pc[r] = "gq_return"
    /\ CanStep(r)
    /\ out' = [out EXCEPT ![r] = [kind |-> "returned", questions |-> formatted[r]]]
    /\ pages' = [pages EXCEPT ![user[r]] = Append(@, formatted[r])]
    /\ Goto(r, AfterPipeline(r))
    /\ UNCHANGED <<pvars, genai_api_key, user_info, envvars, logs, resp, user, inst, args,
                   prompt, a_calls, a_key, content, result, b_calls, formatted, failed>>

GQReturn(r) ==
    /\ pc[r] = "gq_return"
    /\ CanStep(r)
    /\ out' = [out EXCEPT ![r] = [kind |-> "returned", questions |-> formatted[r]]]
    /\ Goto(r, AfterPipeline(r))
    /\ UNCHANGED <<pvars, genai_api_key, user_info, envvars, pages, logs, resp, user, inst, args,
                   prompt, a_calls, a_key, content, result, b_calls, formatted, failed>>

\* agent.py:157-165
GQExceptReraise(r) ==
    /\ pc[r] = "gq_except"
    /\ CanStep(r)
    /\ out' = [out EXCEPT ![r] = [kind |-> "raised", questions |-> <<>>]]
    /\ Goto(r, IF inst[r] = Lib THEN "done" ELSE "h_except")
    /\ UNCHANGED <<pvars, genai_api_key, user_info, envvars, pages, logs, resp, user, inst, args,
                   prompt, a_calls, a_key, content, result, b_calls, formatted, failed>>

GQExceptRetryProviderA(r) ==
    /\ pc[r] = "gq_except"
    /\ CanStep(r)
    /\ IF failed[r] = "provider_a" /\ a_calls[r] < 2
       THEN Goto(r, "gq_call_a") /\ UNCHANGED out
       ELSE /\ out' = [out EXCEPT ![r] = [kind |-> "returned", questions |-> Fallback]]
            /\ Goto(r, AfterPipeline(r))
    /\ UNCHANGED <<pvars, genai_api_key, user_info, envvars, pages, logs, resp, user, inst, args,
                   prompt, a_calls, a_key, content, result, b_calls, formatted, failed>>

GQExcept(r) ==
    /\ pc[r] = "gq_except"
    /\ CanStep(r)
    /\ out' = [out EXCEPT ![r] = [kind |-> "returned", questions |-> Fallback]]
    /\ Goto(r, AfterPipeline(r))
    /\ UNCHANGED <<pvars, genai_api_key, user_info, envvars, pages, logs, resp, user, inst, args,
                   prompt, a_calls, a_key, content, result, b_calls, formatted, failed>>

\* ------------------------------------------------------------------------
\* POST /timeline/generate/{user_name} (main.py:253-329)
\* ------------------------------------------------------------------------

TArrive(r, u, a) ==
    /\ pc[r] = "idle"
    /\ CanStep(r)
    /\ user' = [user EXCEPT ![r] = u]
    /\ kind' = [kind EXCEPT ![r] = "timeline"]
    /\ acts' = [acts EXCEPT ![r] = a]
    /\ Goto(r, "t_user_data")
    /\ UNCHANGED <<pvars, genai_api_key, user_info, admin, character, diary, pages, logs, resp,
                   inst, args, gqvars, reply, settings, diary_pages, admin_page, jpc, jacts, jread>>

\* main.py:260-281 with the status test left out
TGetUserDataAnyStatus(r) ==
    /\ pc[r] = "t_user_data"
    /\ CanStep(r)
    /\ IF ~admin[user[r]].registered
       THEN Log(r, "Error") /\ Goto(r, "t_except")
       ELSE UNCHANGED logs /\ Goto(r, "t_generate")
    /\ UNCHANGED <<pvars, genai_api_key, user_info, envvars, pages, resp, user, inst, args, gqvars>>

\* main.py:260-281: 404 and 403 are raised inside the try, after their log record
TGetUserData(r) ==
    /\ pc[r] = "t_user_data"
    /\ CanStep(r)
    /\ IF ~admin[user[r]].registered \/ admin[user[r]].status # "Active"
       THEN Log(r, "Error") /\ Goto(r, "t_except")
       ELSE UNCHANGED logs /\ Goto(r, "t_generate")
    /\ UNCHANGED <<pvars, genai_api_key, user_info, envvars, pages, resp, user, inst, args, gqvars>>

\* main.py:285-299, notion_manager.py:15, 276-345: the manager built for the
\* user configures the process-wide Gemini key; then the Timeline page and
\* the empty Journal page are created, and either pages.create may raise
TGenerate(r) ==
    /\ pc[r] = "t_generate"
    /\ CanStep(r)
    /\ genai_api_key' = admin[user[r]].gemini_api_key
    /\ user_info' = [user_info EXCEPT ![inst[r]] = FreshUserInfo]
    /\ \/ /\ diary_pages' = [diary_pages EXCEPT ![user[r]] =
                                 @ \o <<TimelinePage(acts[r]), EmptyJournalPage>>]
          /\ Goto(r, "t_log_success")
       \/ /\ diary_pages' = [diary_pages EXCEPT ![user[r]] = Append(@, TimelinePage(acts[r]))]
          /\ Goto(r, "t_except")
       \/ /\ UNCHANGED diary_pages
          /\ Goto(r, "t_except")
    /\ UNCHANGED <<pvars, admin, character, diary, pages, logs, resp, user, inst, args, gqvars,
                   kind, acts, reply, settings, admin_page, jpc, jacts, jread>>

\* main.py:302-313
TLogSuccess(r) ==
    /\ pc[r] = "t_log_success"
    /\ CanStep(r)
    /\ Log(r, "Success")
    /\ resp' = [resp EXCEPT ![r] = 200]
    /\ Goto(r, "done")
    /\ UNCHANGED <<pvars, genai_api_key, user_info, envvars, pages, user, inst, args, gqvars>>

\* main.py:314-329: `except Exception` also catches the HTTPException raised above
TExcept(r) ==
    /\ pc[r] = "t_except"
    /\ CanStep(r)
    /\ Log(r, "Error")
    /\ resp' = [resp EXCEPT ![r] = 500]
    /\ Goto(r, "done")
    /\ UNCHANGED <<pvars, genai_api_key, user_info, envvars, pages, user, inst, args, gqvars>>

\* ------------------------------------------------------------------------
\* GET /user/{user_name} (main.py:461-480) and GET /user/status/{user_name}
\* (main.py:483-499): the HTTPException(404) is raised inside the try and
\* caught by its `except Exception`, which answers 500; nothing is logged
\* ------------------------------------------------------------------------

GetUser(r, u) ==
    /\ pc[r] = "idle"
    /\ CanStep(r)
    /\ user' = [user EXCEPT ![r] = u]
    /\ kind' = [kind EXCEPT ![r] = "get_user"]
    /\ resp' = [resp EXCEPT ![r] = IF admin[u].registered THEN 200 ELSE 500]
    /\ Goto(r, "done")
    /\ UNCHANGED <<pvars, genai_api_key, user_info, admin, character, diary, pages, logs,
                   inst, args, gqvars, acts, reply, settings, diary_pages, admin_page, jpc, jacts, jread>>

GetUserStatus(r, u) ==
    /\ pc[r] = "idle"
    /\ CanStep(r)
    /\ user' = [user EXCEPT ![r] = u]
    /\ kind' = [kind EXCEPT ![r] = "get_user_status"]
    /\ resp' = [resp EXCEPT ![r] = IF admin[u].registered THEN 200 ELSE 500]
    /\ Goto(r, "done")
    /\ UNCHANGED <<pvars, genai_api_key, user_info, admin, character, diary, pages, logs,
                   inst, args, gqvars, acts, reply, settings, diary_pages, admin_page, jpc, jacts, jread>>

\* ------------------------------------------------------------------------
\* POST /user/create (main.py:81-251)
\* ------------------------------------------------------------------------

\* the three fields of get_user_data's answer that the generate endpoints read
AdminView(page) ==
    [registered     |-> GetUserData(page).registered,
     status         |-> GetUserData(page).status,
     gemini_api_key |-> GetUserData(page).gemini_api_key]

\* Python's `x or ""` (notion_manager.py:58-59, 130-131)
OrEmpty(v) == IF v = None THEN "" ELSE v

\* the character page's properties as save_user and update_character_info set them
CharacterProps(s) ==
    [mbti |-> s.mbti, goals |-> OrEmpty(s.goals), preferences |-> OrEmpty(s.preferences)]

\* main.py:120-144: the key paragraphs are rewritten when a key was supplied
RECURSIVE UpdatedBlocks(_, _)
UpdatedBlocks(blocks, s) ==
    IF blocks = <<>> THEN <<>>
    ELSE LET block == Head(blocks)
             text  == block.rich_text[1]
         IN  <<CASE block.type = "paragraph" /\ block.rich_text # <<>>
                        /\ StartsWith(text, NotionKeyLabel) /\ s.notionApiKey # "" ->
                        Block("paragraph", <<LabelledText(NotionKeyLabel, s.notionApiKey)>>)
                 [] block.type = "paragraph" /\ block.rich_text # <<>>
                        /\ StartsWith(text, GeminiKeyLabel) /\ s.geminiApiKey # "" ->
                        Block("paragraph", <<LabelledText(GeminiKeyLabel, s.geminiApiKey)>>)
                 [] OTHER -> block>>
             \o UpdatedBlocks(Tail(blocks), s)

CArrive(r, s) ==
    /\ pc[r] = "idle"
    /\ CanStep(r)
    /\ user' = [user EXCEPT ![r] = s.characterName]
    /\ kind' = [kind EXCEPT ![r] = "create_user"]
    /\ settings' = [settings EXCEPT ![r] = s]
    /\ Goto(r, "c_lookup")
    /\ UNCHANGED <<pvars, genai_api_key, user_info, admin, character, diary, pages, logs, resp,
                   inst, args, gqvars, acts, reply, diary_pages, admin_page, jpc, jacts, jread>>

\* main.py:85-96 with `if settings.confirmUpdate is False`
CLookupUnlessRefused(r) ==
    /\ pc[r] = "c_lookup"
    /\ CanStep(r)
    /\ IF GetUserData(admin_page[user[r]]).registered
       THEN IF settings[r].confirmUpdate = "False"
            THEN /\ reply' = [reply EXCEPT ![r] = "confirmation_required"]
                 /\ resp' = [resp EXCEPT ![r] = 200]
                 /\ Goto(r, "done")
            ELSE /\ Goto(r, "c_update_character")
                 /\ UNCHANGED <<reply, resp>>
       ELSE /\ Goto(r, "c_search")
            /\ UNCHANGED <<reply, resp>>
    /\ UNCHANGED <<pvars, genai_api_key, user_info, admin, character, diary, pages, logs,
                   user, inst, args, gqvars, kind, acts, settings, diary_pages, admin_page,
                   jpc, jacts, jread>>

\* main.py:85-96: a registered name without confirmUpdate is True is answered
\* at once
CLookup(r) ==
    /\ pc[r] = "c_lookup"
    /\ CanStep(r)
    /\ IF GetUserData(admin_page[user[r]]).registered
       THEN IF settings[r].confirmUpdate # "True"
            THEN /\ reply' = [reply EXCEPT ![r] = "confirmation_required"]
                 /\ resp' = [resp EXCEPT ![r] = 200]
                 /\ Goto(r, "done")
            ELSE /\ Goto(r, "c_update_character")
                 /\ UNCHANGED <<reply, resp>>
       ELSE /\ Goto(r, "c_search")
            /\ UNCHANGED <<reply, resp>>
    /\ UNCHANGED <<pvars, genai_api_key, user_info, admin, character, diary, pages, logs,
                   user, inst, args, gqvars, kind, acts, settings, diary_pages, admin_page,
                   jpc, jacts, jread>>

\* main.py:100-115, notion_manager.py:15, 42-68: the manager built with the
\* updated keys configures the process-wide Gemini key; update_character_info
\* sets MBTI, Goals and Preferences, raises ValueError when the character DB
\* has no page of that name, and raises what the Notion call raises
CUpdateCharacter(r) ==
    /\ pc[r] = "c_update_character"
    /\ CanStep(r)
    /\ LET existing_user == GetUserData(admin_page[user[r]])
           updated_gemini_api_key ==
               IF settings[r].geminiApiKey # "" THEN settings[r].geminiApiKey
               ELSE existing_user.gemini_api_key
       IN  /\ genai_api_key' = IF updated_gemini_api_key \in {None, ""}
                               THEN genai_api_key ELSE updated_gemini_api_key
           /\ IF existing_user.database_ids.character_db_id = Absent
              THEN Goto(r, "c_except") /\ UNCHANGED character
              ELSE \/ /\ character' = [character EXCEPT ![user[r]] = CharacterProps(settings[r])]
                      /\ Goto(r, "c_update_admin")
                   \/ /\ UNCHANGED character
                      /\ Goto(r, "c_value_error")
                   \/ /\ UNCHANGED character
                      /\ Goto(r, "c_except")
    /\ UNCHANGED <<pvars, user_info, admin, diary, pages, logs, resp, user, inst, args, gqvars,
                   kind, acts, reply, settings, diary_pages, admin_page, jpc, jacts, jread>>

\* main.py:116-174: existing_user["id"] is read first, and the dict that
\* get_user_data builds (notion_manager.py:89-95) has no such key
CUpdateAdmin(r) ==
    /\ pc[r] = "c_update_admin"
    /\ CanStep(r)
    /\ IF "id" \in DOMAIN GetUserData(admin_page[user[r]])
       THEN /\ admin_page' = [admin_page EXCEPT ![user[r]].blocks = UpdatedBlocks(@, settings[r])]
            /\ admin' = [admin EXCEPT ![user[r]] = AdminView(admin_page'[user[r]])]
            /\ Log(r, "Success")
            /\ reply' = [reply EXCEPT ![r] = "success"]
            /\ resp' = [resp EXCEPT ![r] = 200]
            /\ Goto(r, "done")
       ELSE /\ Goto(r, "c_except")
            /\ UNCHANGED <<admin_page, admin, logs, reply, resp>>
    /\ UNCHANGED <<pvars, genai_api_key, user_info, character, diary, pages, user, inst, args,
                   gqvars, kind, acts, settings, diary_pages, jpc, jacts, jread>>

\* main.py:177-194: extract_page_id raises ValueError on a URL without a page
\* id; a failing search_databases is logged and raised again as ValueError
CSearch(r) ==
    /\ pc[r] = "c_search"
    /\ CanStep(r)
    /\ IF ExtractPageId(settings[r].notionPageUrl) = None
       THEN UNCHANGED logs /\ Goto(r, "c_value_error")
       ELSE IF settings[r].notionPageUrl = "url_unshared"
            THEN Log(r, "Error") /\ Goto(r, "c_value_error")
            ELSE UNCHANGED logs /\ Goto(r, "c_save")
    /\ UNCHANGED <<pvars, genai_api_key, user_info, envvars, pages, resp, user, inst, args, gqvars>>

\* main.py:196-202, notion_manager.py:122-136: databases["character_db_id"]
\* raises KeyError when no character database was found
CSave(r) ==
    /\ pc[r] = "c_save"
    /\ CanStep(r)
    /\ IF DatabasesAt(settings[r].notionPageUrl).character_db_id = Absent
       THEN Goto(r, "c_except") /\ UNCHANGED character
       ELSE \/ /\ character' = [character EXCEPT ![user[r]] = CharacterProps(settings[r])]
               /\ Goto(r, "c_add_page")
            \/ /\ UNCHANGED character
               /\ Goto(r, "c_except")
    /\ UNCHANGED <<pvars, genai_api_key, user_info, admin, diary, pages, logs, resp, user, inst,
                   args, gqvars, xvars>>

\* notion_manager.py:141-147 with Status 'Active'
CAddPageActive(r) ==
    /\ pc[r] = "c_add_page"
    /\ CanStep(r)
    /\ \/ /\ admin_page' = [admin_page EXCEPT ![user[r]] =
                               [exists |-> TRUE, status |-> "Active", blocks |-> <<>>]]
          /\ admin' = [admin EXCEPT ![user[r]] = AdminView(admin_page'[user[r]])]
          /\ Goto(r, "c_add_blocks")
       \/ /\ UNCHANGED <<admin_page, admin>>
          /\ Goto(r, "c_except")
    /\ UNCHANGED <<pvars, genai_api_key, user_info, character, diary, pages, logs, resp, user,
                   inst, args, gqvars, kind, acts, reply, settings, diary_pages, jpc, jacts, jread>>

\* notion_manager.py:141-147: the user's page is created with Status 'Inactive'
CAddPage(r) ==
    /\ pc[r] = "c_add_page"
    /\ CanStep(r)
    /\ \/ /\ admin_page' = [admin_page EXCEPT ![user[r]] =
                               [exists |-> TRUE, status |-> "Inactive", blocks |-> <<>>]]
          /\ admin' = [admin EXCEPT ![user[r]] = AdminView(admin_page'[user[r]])]
          /\ Goto(r, "c_add_blocks")
       \/ /\ UNCHANGED <<admin_page, admin>>
          /\ Goto(r, "c_except")
    /\ UNCHANGED <<pvars, genai_api_key, user_info, character, diary, pages, logs, resp, user,
                   inst, args, gqvars, kind, acts, reply, settings, diary_pages, jpc, jacts, jread>>

\* notion_manager.py:150-195: the blocks are appended in a second call
CAddBlocks(r) ==
    /\ pc[r] = "c_add_blocks"
    /\ CanStep(r)
    /\ \/ /\ admin_page' = [admin_page EXCEPT ![user[r]].blocks =
                               UserBlocks(settings[r].notionApiKey, settings[r].geminiApiKey,
                                          settings[r].notionPageUrl,
                                          DatabasesAt(settings[r].notionPageUrl))]
          /\ admin' = [admin EXCEPT ![user[r]] = AdminView(admin_page'[user[r]])]
          /\ Goto(r, "c_log_success")
       \/ /\ UNCHANGED <<admin_page, admin>>
          /\ Goto(r, "c_except")
    /\ UNCHANGED <<pvars, genai_api_key, user_info, character, diary, pages, logs, resp, user,
                   inst, args, gqvars, kind, acts, reply, settings, diary_pages, jpc, jacts, jread>>

\* main.py:204-229
CLogSuccess(r) ==
    /\ pc[r] = "c_log_success"
    /\ CanStep(r)
    /\ Log(r, "Success")
    /\ reply' = [reply EXCEPT ![r] = "success"]
    /\ resp' = [resp EXCEPT ![r] = 200]
    /\ Goto(r, "done")
    /\ UNCHANGED <<pvars, genai_api_key, user_info, admin, character, diary, pages, user, inst,
                   args, gqvars, kind, acts, settings, diary_pages, admin_page, jpc, jacts, jread>>

\* main.py:231-239
CValueError(r) ==
    /\ pc[r] = "c_value_error"
    /\ CanStep(r)
    /\ Log(r, "Error")
    /\ resp' = [resp EXCEPT ![r] = 400]
    /\ Goto(r, "done")
    /\ UNCHANGED <<pvars, genai_api_key, user_info, envvars, pages, user, inst, args, gqvars>>

\* main.py:240-251
CExcept(r) ==
    /\ pc[r] = "c_except"
    /\ CanStep(r)
    /\ Log(r, "Error")
    /\ resp' = [resp EXCEPT ![r] = 500]
    /\ Goto(r, "done")
    /\ UNCHANGED <<pvars, genai_api_key, user_info, envvars, pages, user, inst, args, gqvars>>

\* ------------------------------------------------------------------------
\* The diary's writer and reader on their own (notion_manager.py:276-416)
\* ------------------------------------------------------------------------

\* the user writes today's Timeline page in Notion
JAuthor(blocks) ==
    /\ jpc = "start"
    /\ jpc' = "authored"
    /\ diary_pages' = [diary_pages EXCEPT ![JUser] = <<Page("Timeline", blocks)>>]
    /\ UNCHANGED <<pvars, running, genai_api_key, user_info, admin, character, diary, pages,
                   logs, resp, pc, user, inst, args, gqvars, kind, acts, reply, settings,
                   admin_page, jacts, jread>>

\* generate_daily_timeline (notion_manager.py:276-345), both pages created
JGenerate(activities) ==
    /\ jpc = "start"
    /\ jpc' = "generated"
    /\ jacts' = activities
    /\ diary_pages' = [diary_pages EXCEPT ![JUser] =
                           @ \o <<TimelinePage(activities), EmptyJournalPage>>]
    /\ UNCHANGED <<pvars, running, genai_api_key, user_info, admin, character, diary, pages,
                   logs, resp, pc, user, inst, args, gqvars, kind, acts, reply, settings,
                   admin_page, jread>>

\* get_todays_journal for the same date (notion_manager.py:347-416)
JRead ==
    /\ jpc \in {"authored", "generated"}
    /\ jpc' = jpc \o "_read"
    /\ jread' = GetTodaysJournal(diary_pages[JUser])
    /\ UNCHANGED <<pvars, running, genai_api_key, user_info, admin, character, diary, pages,
                   logs, resp, pc, user, inst, args, gqvars, kind, acts, reply, settings,
                   diary_pages, admin_page, jacts>>

\* ------------------------------------------------------------------------
\* Specifications
\* ------------------------------------------------------------------------

PInitVars ==
    /\ ppc = "start"
    /\ parsed = NoResult

\* no request of another endpoint has arrived, the stores are as the fixtures
\* lay them out
XInitVars ==
    /\ kind = [r \in Reqs |-> "questions"]
    /\ acts = [r \in Reqs |-> <<>>]
    /\ reply = [r \in Reqs |-> ""]
    /\ settings = [r \in Reqs |-> NoSettings]
    /\ diary_pages = [n \in Names |-> <<>>]
    /\ admin_page = AdminPagesFixture
    /\ jpc = "start"
    /\ jacts = <<>>
    /\ jread = NoRead

SInitVars ==
    /\ XInitVars
    /\ running = Idle
    /\ user_info = [i \in Insts |-> FreshUserInfo]
    /\ admin = AdminFixture
    /\ character = CharacterFixture
    /\ diary = DiaryFixture
    /\ pages = [n \in Names |-> <<>>]
    /\ logs = [r \in Reqs |-> <<>>]
    /\ resp = [r \in Reqs |-> 0]
    /\ pc = [r \in Reqs |-> "idle"]
    /\ user = [r \in Reqs |-> None]
    /\ args = [r \in Reqs |-> NoArgs]
    /\ prompt = [r \in Reqs |-> NoPrompt]
    /\ a_calls = [r \in Reqs |-> 0]
    /\ a_key = [r \in Reqs |-> None]
    /\ content = [r \in Reqs |-> <<>>]
    /\ result = [r \in Reqs |-> NoResult]
    /\ b_calls = [r \in Reqs |-> 0]
    /\ formatted = [r \in Reqs |-> <<>>]
    /\ failed = [r \in Reqs |-> "none"]
    /\ out = [r \in Reqs |-> [kind |-> "pending", questions |-> <<>>]]

NoSample == [kind |-> "raw", content |-> <<>>, a |-> <<>>, texts |-> <<>>]

\* the application: no analyzer exists before the first request
Init ==
    /\ PInitVars
    /\ sample = NoSample
    /\ SInitVars
    /\ genai_api_key = None
    /\ inst = [r \in Reqs |-> r]

Pipeline(r) ==
    \/ GQEnter(r)
    \/ GQPrompt(r)
    \/ GQCallA(r)
    \/ GQParse(r)
    \/ GQCallB(r)
    \/ GQResumeB(r)
    \/ GQReturn(r)
    \/ GQExcept(r)

Next ==
    \E r \in Reqs :
        \/ \E u \in Names : Arrive(r, u)
        \/ HGetUserData(r)
        \/ HConstruct(r)
        \/ HGetUserInfo(r)
        \/ HGetJournal(r)
        \/ Pipeline(r)
        \/ HSave(r)
        \/ HLogSuccess(r)
        \/ HExcept(r)

Spec == Init /\ [][Next]_vars

\* the four endpoints that look a user up, for the users of GateNames
GateNext ==
    \E r \in Reqs :
        \/ \E u \in GateNames : Arrive(r, u)
        \/ HGetUserData(r)
        \/ HConstruct(r)
        \/ HGetUserInfo(r)
        \/ HGetJournal(r)
        \/ Pipeline(r)
        \/ HSave(r)
        \/ HLogSuccess(r)
        \/ HExcept(r)
        \/ \E u \in GateNames, a \in TimelineRequests : TArrive(r, u, a)
        \/ TGetUserData(r)
        \/ TGenerate(r)
        \/ TLogSuccess(r)
        \/ TExcept(r)
        \/ \E u \in GateNames : GetUser(r, u)
        \/ \E u \in GateNames : GetUserStatus(r, u)

SpecGate == Init /\ [][GateNext]_vars

\* POST /user/create next to the two generate endpoints called for the users
\* of NewNames; no request of the model passes the status test, so the steps
\* behind it are not among the actions
UsersNext ==
    \E r \in Reqs :
        \/ \E s \in CreateRequests : CArrive(r, s)
        \/ CLookup(r)
        \/ CUpdateCharacter(r)
        \/ CUpdateAdmin(r)
        \/ CSearch(r)
        \/ CSave(r)
        \/ CAddPage(r)
        \/ CAddBlocks(r)
        \/ CLogSuccess(r)
        \/ CValueError(r)
        \/ CExcept(r)
        \/ \E u \in NewNames : Arrive(r, u)
        \/ HGetUserData(r)
        \/ HExcept(r)
        \/ \E u \in NewNames, a \in TimelineRequests : TArrive(r, u, a)
        \/ TGetUserData(r)
        \/ TExcept(r)

SpecUsers == Init /\ [][UsersNext]_vars

\* the writer or the user fills today's diary, then the reader runs: every
\* Timeline page of up to MaxBlocks blocks, every list of up to MaxActs activities
JNext ==
    \/ \E blocks \in SeqsUpTo(AuthoredBlocks, MaxBlocks) : JAuthor(blocks)
    \/ \E activities \in SeqsUpTo({ActRun, ActLunch, ActRead}, MaxActs) : JGenerate(activities)
    \/ JRead

SpecJournal == Init /\ [][JNext]_vars

\* a library caller: one analyzer, constructed with its key, shared by the calls
LibInit ==
    /\ PInitVars
    /\ sample = NoSample
    /\ SInitVars
    /\ genai_api_key = "key_lib"
    /\ inst = [r \in Reqs |-> Lib]

LibNext ==
    \E r \in Reqs :
        \/ \E a \in DirectArgs : Invoke(r, a)
        \/ Pipeline(r)

SpecLib == LibInit /\ [][LibNext]_vars

\* the parser on its own, over every text of up to MaxPieces pieces and every
\* well-formed reply of up to MaxLines numbered lines
PInit ==
    /\ PInitVars
    /\ SInitVars
    /\ genai_api_key = None
    /\ inst = [r \in Reqs |-> r]
    /\ \/ \E c \in PieceTexts(MaxPieces) :
              sample = [kind |-> "raw", content |-> c, a |-> <<>>, texts |-> <<>>]
       \/ \E a \in AnalysisTexts, ts \in LineTexts(MaxLines) :
              sample = [kind |-> "wellformed", content |-> WellFormed(a, ts),
                        a |-> a, texts |-> ts]

Parse ==
    /\ ppc = "start"
    /\ ppc' = "parsed"
    /\ parsed' = ParseGemini(sample.content)
    /\ UNCHANGED <<sample, svars>>

PNext == Parse

SpecParse == PInit /\ [][PNext]_vars

\* ------------------------------------------------------------------------
\* Properties
\* ------------------------------------------------------------------------

Finished(r) == out[r].kind # "pending"

\* C1, as stated: generate_questions never raises, and whenever an exception
\* occurs at any stage (prompt building, provider A, parsing, provider B) the
\* invocation returns exactly the fallback list.
C1_AnyExceptionGivesFallback ==
    \A r \in Reqs :
        Finished(r) =>
            /\ out[r].kind = "returned"
            /\ (failed[r] # "none" \/ result[r].parse_error) => out[r].questions = Fallback

\* C1, amended: generate_questions never raises, and whenever an exception
\* escapes a stage (prompt building, provider A, provider B) the invocation
\* returns exactly the fallback list; the parser's own exception is caught
\* inside get_gemini_analysis and is not among them.
C1_EscapedExceptionGivesFallback ==
    \A r \in Reqs :
        Finished(r) =>
            /\ out[r].kind = "returned"
            /\ failed[r] # "none" => out[r].questions = Fallback

C1_Witness ==
    \E r \in Reqs :
        /\ out[r].kind = "returned"
        /\ failed[r] = "provider_b"
        /\ result[r].parse_error
        /\ out[r].questions = Fallback

\* C2: every invocation that returns, returns a list of exactly 5 non-empty
\* question strings, on the success path as on the fallback path.
C2_AlwaysFiveNonEmpty ==
    \A r \in Reqs :
        out[r].kind = "returned" =>
            /\ Len(out[r].questions) = 5
            /\ \A i \in 1..Len(out[r].questions) : out[r].questions[i] # ""

\* C3, as stated: for an output without the questions marker the parser yields
\* no questions and analysis = the whole output with whitespace trimmed.
C3_NoMarkerTrimmedAnalysis ==
    (ppc = "parsed" /\ ~Contains(sample.content, QuestionsMarker)) =>
        /\ parsed.questions = <<>>
        /\ parsed.analysis = Strip(sample.content)

\* C3, amended: for an output without the questions marker the parser yields
\* no questions and analysis = the whole raw output, unchanged (not trimmed,
\* the analysis marker not removed).
C3_NoMarkerRawAnalysis ==
    (ppc = "parsed" /\ ~Contains(sample.content, QuestionsMarker)) =>
        /\ parsed.questions = <<>>
        /\ parsed.analysis = sample.content

C3_Witness ==
    /\ ppc = "parsed"
    /\ ~Contains(sample.content, QuestionsMarker)
    /\ Contains(sample.content, AnalysisMarker)
    /\ Strip(sample.content) # sample.content
    /\ parsed.analysis = sample.content

\* C4: for '[BS]' + analysis text + '[JM]' + N numbered lines 'k. text' the
\* parser yields the trimmed analysis text and N questions, the k-th being the
\* (trimmed) text of the k-th line.
C4_WellFormedParsed ==
    (ppc = "parsed" /\ sample.kind = "wellformed") =>
        /\ parsed.analysis = Strip(sample.a)
        /\ Len(parsed.questions) = Len(sample.texts)
        /\ \A i \in 1..Len(sample.texts) : parsed.questions[i] = Strip(sample.texts[i])

C4_Witness ==
    /\ ppc = "parsed"
    /\ sample.kind = "wellformed"
    /\ Len(sample.texts) = MaxLines
    /\ \E i \in 1..Len(sample.texts) : "." \in Range(sample.texts[i])
    /\ Strip(sample.a) # sample.a
    /\ Len(parsed.questions) = MaxLines

IsDigit(c) == c \in {"0", "1", "2", "3", "4", "5", "6", "7", "8", "9"}

\* digits, a dot, then text that is not blank
NumberedWithText(line) ==
    \E k \in 1..Len(line) :
        /\ \A j \in 1..k : IsDigit(line[j])
        /\ k < Len(line)
        /\ line[k + 1] = "."
        /\ Strip(SubSeq(line, k + 2, Len(line))) # <<>>

QuestionsSection(text) ==
    LET i == Find(text, QuestionsMarker)
        rest == SubSeq(text, i + Len(QuestionsMarker), Len(text))
        j == Find(rest, QuestionsMarker)
    IN  IF j = 0 THEN rest ELSE SubSeq(rest, 1, j - 1)

\* C5: the parser keeps exactly the lines with a number-dot prefix followed
\* by text; every element of questions is a non-empty string from such a line.
C5_OnlyNumberedLinesKept ==
    (ppc = "parsed" /\ Contains(sample.content, QuestionsMarker)) =>
        LET lines == Split(Strip(QuestionsSection(sample.content)), <<"\n">>)
            numbered == {i \in 1..Len(lines) : NumberedWithText(Strip(lines[i]))}
        IN  /\ Len(parsed.questions) = Cardinality(numbered)
            /\ \A i \in 1..Len(parsed.questions) : parsed.questions[i] # <<>>

\* C6: in one invocation provider A and provider B are each called at most
\* once, B only after A returned without raising, and no provider is called
\* after a failed step: the calls made stay those made up to the failure.
C6_CallsOnceInOrderNoRetry ==
    \A r \in Reqs :
        /\ a_calls[r] <= 1
        /\ b_calls[r] <= 1
        /\ b_calls[r] = 1 => (a_calls[r] = 1 /\ failed[r] \notin {"prompt", "provider_a"})
        /\ failed[r] = "prompt" => (a_calls[r] = 0 /\ b_calls[r] = 0)
        /\ failed[r] = "provider_a" => (a_calls[r] = 1 /\ b_calls[r] = 0)
        /\ failed[r] = "provider_b" => (a_calls[r] = 1 /\ b_calls[r] = 1)

C6_Witness ==
    /\ \E r \in Reqs : failed[r] = "provider_a" /\ Finished(r) /\ b_calls[r] = 0
    /\ \E r \in Reqs : failed[r] = "provider_b" /\ Finished(r) /\ a_calls[r] = 1

\* C7: under every interleaving of requests for different users, the provider
\* A call of a request uses the Gemini key stored for that request's user.
C7_OwnGeminiKey ==
    \A r \in Reqs :
        a_calls[r] > 0 => a_key[r] = admin[user[r]].gemini_api_key

\* two requests of different users in flight together: one suspended in the
\* provider B call while the other has configured its key and called provider A
C7_Witness ==
    \E r1, r2 \in Reqs :
        /\ user[r1] # user[r2]
        /\ pc[r1] = "gq_wait_b"
        /\ a_calls[r1] = 1
        /\ a_calls[r2] = 1
        /\ genai_api_key # admin[user[r1]].gemini_api_key

\* C8: when invocations on one analyzer interleave, the prompt sent to
\* provider A in each holds the goals and preferences passed to that invocation.
C8_OwnGoalsInPrompt ==
    \A r \in Reqs :
        a_calls[r] > 0 =>
            /\ prompt[r].goals = Str(args[r].goals)
            /\ prompt[r].preferences = Str(args[r].preferences)

C8_Witness ==
    \E r1, r2 \in Reqs :
        /\ inst[r1] = inst[r2]
        /\ pc[r1] = "gq_wait_b"
        /\ a_calls[r1] = 1
        /\ a_calls[r2] = 1
        /\ args[r1].goals # args[r2].goals
        /\ user_info[inst[r1]].goals # args[r1].goals

InPipeline(r) ==
    pc[r] \in {"gq_enter", "gq_prompt", "gq_call_a", "gq_parse", "gq_call_b",
               "gq_wait_b", "gq_return", "gq_except"}

PipelineStep(r) == InPipeline(r) /\ pc'[r] # pc[r]

\* C9, as stated: generate_questions writes nothing to the document store and
\* leaves the analyzer's state, user_info included, as it was.
C9_NoSideEffect ==
    [][\A r \in Reqs : PipelineStep(r) => (pages' = pages /\ user_info' = user_info)]_vars

\* C9, amended: generate_questions writes nothing to the document store (nor
\* an activity-log record, nor the process-wide key); of the analyzer's state
\* it changes user_info alone, which its first step sets to the goals and
\* preferences passed to the invocation.
C9_OnlyUserInfoChanges ==
    [][\A r \in Reqs :
          PipelineStep(r) =>
              /\ pages' = pages
              /\ logs' = logs
              /\ genai_api_key' = genai_api_key
              /\ \/ user_info' = user_info
                 \/ /\ pc[r] = "gq_enter"
                    /\ user_info' = [user_info EXCEPT ![inst[r]] =
                                        [goals |-> args[r].goals,
                                         preferences |-> args[r].preferences]]]_vars

C9_Witness ==
    \E r \in Reqs :
        /\ out[r].kind = "returned"
        /\ pc[r] = "h_save"
        /\ user_info[inst[r]] # FreshUserInfo
        /\ user_info[inst[r]].goals = args[r].goals
        /\ pages[user[r]] = <<>>

\* C10: no provider is called in an invocation whose MBTI code is missing
\* (None or empty), through the endpoint or on a direct call.
C10_NoCallWithoutMbti ==
    \A r \in Reqs :
        (pc[r] # "idle" /\ args[r].mbti \in {None, ""}) => (a_calls[r] = 0 /\ b_calls[r] = 0)

\* C11: a provider A reply without the questions marker is a degraded
\* success: the parse error stays inside get_gemini_analysis, provider B is
\* still called, with the whole raw reply as the analysis and an empty draft
\* list (agent.py:145-152 builds B's prompt from result), and when B answers
\* the invocation returns B's questions.
C11_NoMarkerStillCallsB ==
    \A r \in Reqs :
        result[r].parse_error =>
            /\ result[r].analysis = content[r]
            /\ result[r].questions = <<>>
            /\ failed[r] \in {"none", "provider_b"}
            /\ pc[r] = "gq_call_b" \/ b_calls[r] = 1
            /\ (Finished(r) /\ failed[r] = "none") =>
                   out[r] = [kind |-> "returned", questions |-> formatted[r]]

C11_Witness ==
    \E r \in Reqs :
        /\ result[r].parse_error
        /\ ~Contains(content[r], QuestionsMarker)
        /\ content[r] # Strip(content[r])
        /\ b_calls[r] = 1
        /\ out[r].kind = "returned"
        /\ out[r].questions = formatted[r]
        /\ out[r].questions # Fallback

\* the prompt text as a function of the five inputs alone
PromptFromInputs(mbti, goals, preferences, journal_data) ==
    BuildPrompt([goals |-> goals, preferences |-> preferences], journal_data, mbti)

\* C12: prompt building is deterministic.  On one analyzer, two prompt
\* constructions with identical MBTI, goals, preferences, timeline and journal
\* text give identical prompts, whatever ran on the analyzer before or in
\* between: each prompt is the function of its own five inputs.
C12_SameInputsSamePrompt ==
    /\ \A r1, r2 \in Reqs :
           (a_calls[r1] > 0 /\ a_calls[r2] > 0 /\ args[r1] = args[r2]) => prompt[r1] = prompt[r2]
    /\ \A r \in Reqs :
           a_calls[r] > 0 =>
               prompt[r] = PromptFromInputs(args[r].mbti, args[r].goals, args[r].preferences,
                                            args[r].journal)

\* the second construction ran on the state the first one left, the first on
\* a fresh analyzer; and one that ran after an invocation with other goals
C12_Witness ==
    \E r1, r2 \in Reqs :
        /\ r1 # r2
        /\ inst[r1] = inst[r2]
        /\ pc[r1] = "done"
        /\ a_calls[r1] = 1
        /\ a_calls[r2] = 1
        /\ args[r1] = args[r2]
        /\ args[r1].goals # None
        /\ prompt[r1] = prompt[r2]
        /\ prompt[r1] # NoPrompt

NotActive(u) == ~admin[u].registered \/ admin[u].status # "Active"

\* C13: on POST /timeline/generate and POST /questions/generate, a request
\* for a user who is unregistered or whose status is not 'Active' makes no
\* provider call and writes nothing to the user's document store; the only
\* records it writes are activity-log records, and they report the error.
C13_NotActiveNoWriteNoCall ==
    /\ \A r \in Reqs :
           (pc[r] # "idle" /\ kind[r] \in {"questions", "timeline"} /\ NotActive(user[r])) =>
               /\ a_calls[r] = 0
               /\ b_calls[r] = 0
               /\ pc[r] \in {"h_user_data", "h_except", "t_user_data", "t_except", "done"}
               /\ \A i \in 1..Len(logs[r]) : logs[r][i] = "Error"
    /\ \A u \in Names : NotActive(u) => (pages[u] = <<>> /\ diary_pages[u] = <<>>)

C13_Witness ==
    \E r1, r2 \in Reqs :
        /\ pc[r1] = "done"
        /\ pc[r2] = "done"
        /\ kind[r1] = "timeline"
        /\ admin[user[r1]].registered
        /\ admin[user[r1]].status = "Inactive"
        /\ logs[r1] # <<>>
        /\ kind[r2] = "questions"
        /\ ~admin[user[r2]].registered
        /\ logs[r2] # <<>>

\* C14: the HTTP status the client receives is the status the handler raises:
\* 404 for an unregistered user on the two generate endpoints, GET /user and
\* GET /user/status; 403 for a registered user who is not Active on the two
\* generate endpoints; 400 when the MBTI is missing on POST /questions/generate.
C14_AnsweredStatusIsRaisedStatus ==
    \A r \in Reqs :
        pc[r] = "done" =>
            /\ ~admin[user[r]].registered => resp[r] = 404
            /\ (admin[user[r]].registered /\ admin[user[r]].status # "Active"
                    /\ kind[r] \in {"questions", "timeline"}) => resp[r] = 403
            /\ (admin[user[r]].registered /\ admin[user[r]].status = "Active"
                    /\ kind[r] = "questions"
                    /\ character[user[r]].mbti \in {None, ""}) => resp[r] = 400

\* C15: when the user has no Journal page with text for today, POST
\* /questions/generate is rejected before the pipeline runs: no provider is
\* called and no Questions page is created.
C15_NoJournalRejectedBeforePipeline ==
    \A r \in Reqs :
        (pc[r] # "idle" /\ kind[r] = "questions" /\ diary[user[r]].journal = "") =>
            /\ ~InPipeline(r)
            /\ a_calls[r] = 0
            /\ b_calls[r] = 0
            /\ pages[user[r]] = <<>>
            /\ resp[r] # 200

\* the texts of the heading_3 blocks, in block order
RECURSIVE HeadingTexts(_)
HeadingTexts(blocks) ==
    IF blocks = <<>> THEN <<>>
    ELSE (IF Head(blocks).type = "heading_3" THEN <<Head(blocks).rich_text[1]>> ELSE <<>>)
         \o HeadingTexts(Tail(blocks))

\* C16: for every sequence of heading_3, paragraph and callout blocks on the
\* Timeline page, get_todays_journal returns one entry per heading_3 block, in
\* block order, and every entry has both 'time' and 'activity'.
C16_EveryEntryHasTimeAndActivity ==
    jpc = "authored_read" =>
        /\ ~jread.raised
        /\ Len(jread.timeline) = Len(HeadingTexts(diary_pages[JUser][1].blocks))
        /\ \A i \in 1..Len(jread.timeline) :
               /\ jread.timeline[i].time = HeadingTexts(diary_pages[JUser][1].blocks)[i]
               /\ jread.timeline[i].activity # Absent

\* C17: after generate_daily_timeline wrote a list of activities,
\* get_todays_journal for the same date returns one entry per activity, in
\* start-time order, carrying the activity's title and thoughts.
C17_TimelineRoundTrip ==
    jpc = "generated_read" =>
        /\ ~jread.raised
        /\ Len(jread.timeline) = Len(jacts)
        /\ \A i \in 1..Len(jread.timeline) :
               /\ jread.timeline[i].time = SortedActivities(jacts)[i].startTime
               /\ jread.timeline[i].activity = SortedActivities(jacts)[i].title
               /\ jread.timeline[i].thoughts =
                      IF SortedActivities(jacts)[i].thoughts \in {None, ""} THEN Absent
                      ELSE SortedActivities(jacts)[i].thoughts

\* C18: a user created by POST /user/create is stored with status 'Inactive',
\* and no operation changes the status of a stored user; hence a newly created
\* user is rejected by both generate endpoints: its requests never pass the
\* status test, call no provider and write no page.
C18_CreatedInactiveAndStatusNeverChanges ==
    /\ \A n \in Names :
           IF AdminPagesFixture[n].exists
           THEN admin_page[n].exists /\ admin_page[n].status = AdminPagesFixture[n].status
           ELSE admin_page[n].exists =>
                    /\ admin_page[n].status = "Inactive"
                    /\ GetUserData(admin_page[n]).status = "Inactive"
                    /\ pages[n] = <<>>
                    /\ diary_pages[n] = <<>>
    /\ \A r \in Reqs :
           (pc[r] # "idle" /\ kind[r] \in {"questions", "timeline"}
                /\ ~AdminPagesFixture[user[r]].exists) =>
               /\ pc[r] \in {"h_user_data", "h_except", "t_user_data", "t_except", "done"}
               /\ resp[r] # 200
               /\ a_calls[r] = 0
               /\ b_calls[r] = 0

\* a user was created and then asked for a timeline
C18_Witness ==
    \E r1, r2 \in Reqs :
        /\ pc[r1] = "done"
        /\ pc[r2] = "done"
        /\ kind[r1] = "create_user"
        /\ reply[r1] = "success"
        /\ ~AdminPagesFixture[user[r1]].exists
        /\ admin_page[user[r1]].exists
        /\ kind[r2] = "timeline"
        /\ user[r2] = user[r1]
        /\ Len(logs[r2]) = 2
        /\ admin[user[r2]].registered

\* a step of request r of POST /user/create for a registered name, sent
\* without confirmUpdate being True
UnconfirmedStep(r) ==
    /\ pc'[r] # pc[r]
    /\ kind'[r] = "create_user"
    /\ pc[r] \in {"idle", "c_lookup"}
    /\ GetUserData(admin_page[user'[r]]).registered
    /\ settings'[r].confirmUpdate # "True"

\* C19: POST /user/create for a name that is already registered, sent without
\* confirmUpdate being True, answers 'confirmation_required' and changes
\* nothing: no page or block is created or updated, in the admin store or in
\* the user's workspace, and no activity-log record is written.
C19_UnconfirmedChangesNothing ==
    [][\A r \in Reqs :
          UnconfirmedStep(r) =>
              /\ admin_page' = admin_page
              /\ admin' = admin
              /\ character' = character
              /\ diary_pages' = diary_pages
              /\ pages' = pages
              /\ logs' = logs
              /\ genai_api_key' = genai_api_key
              /\ pc[r] = "c_lookup" =>
                     /\ pc'[r] = "done"
                     /\ reply'[r] = "confirmation_required"
                     /\ resp'[r] = 200]_vars

C19_Witness ==
    \E r \in Reqs :
        /\ pc[r] = "done"
        /\ kind[r] = "create_user"
        /\ settings[r].confirmUpdate = None
        /\ admin_page[user[r]] = AdminPagesFixture[user[r]]
        /\ admin_page[user[r]].exists
        /\ reply[r] = "confirmation_required"
        /\ logs[r] = <<>>

\* request r was a confirmed update of a registered user, it is the only
\* POST /user/create for that user, and its character-DB write went through
ConfirmedUpdateDone(r) ==
    /\ pc[r] = "done"
    /\ kind[r] = "create_user"
    /\ AdminPagesFixture[user[r]].exists
    /\ settings[r].confirmUpdate = "True"
    /\ character[user[r]] = CharacterProps(settings[r])
    /\ \A r2 \in Reqs \ {r} : ~(kind[r2] = "create_user" /\ user[r2] = user[r])

\* C20: after a confirmed update, the record get_user_data reads has, for the
\* Notion key and for the Gemini key, the newly supplied key when a non-empty
\* one was supplied and the previous key otherwise, while notion_url,
\* database_ids and status are as before; in the character DB the user's MBTI,
\* Goals and Preferences are the ones supplied.
C20_ConfirmedUpdateStoresSuppliedKeys ==
    \A r \in Reqs :
        ConfirmedUpdateDone(r) =>
            LET before == GetUserData(AdminPagesFixture[user[r]])
                after  == GetUserData(admin_page[user[r]])
            IN  /\ after.notion_api_key =
                       IF settings[r].notionApiKey # "" THEN settings[r].notionApiKey
                       ELSE before.notion_api_key
                /\ after.gemini_api_key =
                       IF settings[r].geminiApiKey # "" THEN settings[r].geminiApiKey
                       ELSE before.gemini_api_key
                /\ after.notion_url = before.notion_url
                /\ after.database_ids = before.database_ids
                /\ after.status = before.status

\* C21: after any sequence of POST /user/create requests, failing ones and
\* workspaces without a character or diary database included, every record
\* get_user_data returns for a registered name has a notion_api_key and a
\* gemini_api_key that are not None and database_ids holding both
\* character_db_id and diary_db_id.
C21_RegisteredRecordsComplete ==
    \A n \in Names :
        GetUserData(admin_page[n]).registered =>
            /\ GetUserData(admin_page[n]).notion_api_key # None
            /\ GetUserData(admin_page[n]).gemini_api_key # None
            /\ GetUserData(admin_page[n]).database_ids.character_db_id # Absent
            /\ GetUserData(admin_page[n]).database_ids.diary_db_id # Absent

\* C22: no request to /user/create, /timeline/generate or /questions/generate
\* writes more than one activity-log record: one that ends in an error writes
\* exactly one Error record, one that succeeds writes exactly one Success
\* record and no Error record.
C22_OneLogRecordPerRequest ==
    \A r \in Reqs :
        (pc[r] # "idle" /\ kind[r] \in {"create_user", "timeline", "questions"}) =>
            /\ Len(logs[r]) <= 1
            /\ (pc[r] = "done" /\ resp[r] # 200) => logs[r] = <<"Error">>
            /\ (pc[r] = "done" /\ resp[r] = 200 /\ reply[r] # "confirmation_required") =>
                   logs[r] = <<"Success">>
====
